---------------------------- MODULE Spec2Model ----------------------------
(***************************************************************************)
(* A model of med-rag: the flat vector store (src/src/vector_store.py),    *)
(* the answer synthesizer with its parse/repair chain (src/src/llm.py)     *)
(* and the schema it validates against (src/src/schema.py), the metrics    *)
(* (src/src/evaluation.py), and the service that builds the index and      *)
(* answers queries (src/src/app_state.py, pipeline.py, api.py).            *)
(*                                                                         *)
(* Spec     : a VectorStore under arbitrary add / search calls.            *)
(* SpecGen  : a process that starts up and makes a call of generate_answer.*)
(* SpecEval : calls of retrieval_recall and check_faithfulness.            *)
(* SpecApp  : the API process: startup, the index build, a /query request. *)
(***************************************************************************)
EXTENDS Integers, Sequences, FiniteSets, TLC

(***************************************************************************)
(* Bounds of the model.                                                    *)
(***************************************************************************)
Dim == 2          \* the dim handed to VectorStore(dim)
MaxStored == 2    \* no sequence of the store grows beyond this length
MaxK == 3         \* search is called with k in 1..MaxK

None == "None"              \* Python's None, where a name is expected

Min(a, b) == IF a <= b THEN a ELSE b

(***************************************************************************)
(* Vectors.  Coordinates are small integers; the stored vectors and the    *)
(* queries are the zero vector and unit vectors, as in                     *)
(* tests/test_vector_store.py, plus vectors of a wrong length.             *)
(***************************************************************************)
Zero == [i \in 1..Dim |-> 0]
Unit(j) == [i \in 1..Dim |-> IF i = j THEN 1 ELSE 0]
Short == [i \in 1..(Dim - 1) |-> 1]
Long == [i \in 1..(Dim + 1) |-> 0]

QueryVectors == {Zero, Unit(1), Short}

\* The embedding batches handed to add: empty, well formed, of a wrong
\* dimension throughout, and ragged (a good row followed by a bad one).
EmbeddingBatches ==
    {<<>>, <<Zero>>, <<Unit(1)>>, <<Unit(1), Unit(Dim)>>,
     <<Long>>, <<Unit(1), Short>>}

TextBatches == {<<>>, <<"a">>, <<"a", "b">>}
MetadataBatches ==
    {<<>>, <<[pmid |-> "1"]>>, <<[pmid |-> "1"], [pmid |-> "2"]>>}

\* The texts and metadata handed to add together: of one length, and with
\* metadata entries missing.
ChunkBatches ==
    {<<t, m>> \in TextBatches \X MetadataBatches : Len(m) <= Len(t)}

\* score_threshold: <<>> is None, <<t>> the threshold t.
NoThreshold == <<>>
Thresholds == {NoThreshold, <<1>>}

VARIABLES
    index,      \* VectorStore.index: the vectors of the faiss IndexFlatL2
    texts,      \* VectorStore.texts
    metadata,   \* VectorStore.metadata
    call,       \* the last call made on the store, its arguments and outcome
    env,        \* os.environ: which of the OPENROUTER_ variables are set
    app,        \* the process: "starting", "ready" (AppState built), "failed"
    ga,         \* the last call of generate_answer and its outcome
    metric,     \* the last call of a function of evaluation.py, its outcome
    build,      \* AppState.build_index: its position and its locals
    store,      \* AppState.store: None, or the VectorStore assigned to it
    req         \* the /query request handled, and its outcome

store_vars == <<index, texts, metadata, call>>
gen_vars == <<env, app, ga>>
svc_vars == <<metric, build, store, req>>
vars == <<index, texts, metadata, call, env, app, ga, metric,
          build, store, req>>

EnvNames == {"OPENROUTER_BASE_URL", "OPENROUTER_API_KEY", "OPENROUTER_MODEL"}

\* build_index before it is called: no statement done, its locals empty.
NoBuild ==
    [pc |-> 0, all_chunks |-> <<>>, metadata |-> <<>>, embeddings |-> <<>>,
     err |-> None]

(***************************************************************************)
(* numpy / faiss, as vector_store.py uses them.                            *)
(***************************************************************************)
\* np.array(embeddings) is a 2-D array: at least one row, all of one length.
Rectangular(embs) ==
    /\ Len(embs) > 0
    /\ \A i \in 1..Len(embs) : Len(embs[i]) = Len(embs[1])

\* The squared L2 distance IndexFlatL2 reports.
RECURSIVE SumSq(_, _, _)
SumSq(a, b, i) ==
    IF i = 0 THEN 0 ELSE (a[i] - b[i]) * (a[i] - b[i]) + SumSq(a, b, i - 1)

Distance(a, b) == SumSq(a, b, Len(a))

\* The distance faiss reports in a result slot it could not fill (its label
\* is -1): the largest float, above every real distance.
FLT_MAX == 1000
NoLabel == -1

\* index.add(x): numpy cannot build a matrix from an empty or ragged list
\* (ValueError); faiss asserts the row length against the index's d.
FaissAddError(embs) ==
    IF ~Rectangular(embs) THEN "ValueError"
    ELSE IF Len(embs[1]) # Dim THEN "AssertionError"
    ELSE None

\* A Python list subscript lst[i], with the negative indices Python accepts.
\* Returns <<ok, value>>.
PyIndex(lst, i) ==
    IF i >= 0
    THEN IF i < Len(lst) THEN <<TRUE, lst[i + 1]>> ELSE <<FALSE, None>>
    ELSE IF -i <= Len(lst) THEN <<TRUE, lst[Len(lst) + i + 1]>>
         ELSE <<FALSE, None>>

(***************************************************************************)
(* VectorStore.add(embeddings, texts, metadata).                           *)
(***************************************************************************)
\* The store and the error after add's three statements, in their order:
\* index.add raises before anything is appended; the two extends follow it
\* unconditionally.
AddEffect_ExtendFirst(embs, txts, meta) ==
    [err |-> FaissAddError(embs),
     index |-> IF FaissAddError(embs) # None THEN index ELSE index \o embs,
     texts |-> texts \o txts,
     metadata |-> metadata \o meta]

AddEffect(embs, txts, meta) ==
    IF FaissAddError(embs) # None
    THEN [err |-> FaissAddError(embs), index |-> index, texts |-> texts,
          metadata |-> metadata]
    ELSE [err |-> None, index |-> index \o embs, texts |-> texts \o txts,
          metadata |-> metadata \o meta]

Add(embs, txts, meta) ==
    \E r \in {AddEffect(embs, txts, meta)} :
       /\ Len(r.index) <= MaxStored
       /\ Len(r.texts) <= MaxStored
       /\ Len(r.metadata) <= MaxStored
       /\ index' = r.index
       /\ texts' = r.texts
       /\ metadata' = r.metadata
       /\ call' = [kind |-> "add",
                   n_emb |-> Len(embs),
                   n_texts |-> Len(txts),
                   n_meta |-> Len(meta),
                   bad_dim |-> \E i \in 1..Len(embs) : Len(embs[i]) # Dim,
                   err |-> r.err]
       /\ UNCHANGED gen_vars
       /\ UNCHANGED svc_vars

\* pipeline.py's build_index calls store.add(embeddings, all_chunks): the
\* metadata argument is missing, a TypeError before add's body runs.
AddWithoutMetadata(embs, txts) ==
    /\ call' = [kind |-> "add_without_metadata", n_emb |-> Len(embs),
                n_texts |-> Len(txts), err |-> "TypeError"]
    /\ UNCHANGED <<index, texts, metadata>>
    /\ UNCHANGED gen_vars
    /\ UNCHANGED svc_vars

(***************************************************************************)
(* VectorStore.search(query_embedding, k, score_threshold).                *)
(***************************************************************************)
Orderings(n) ==
    {p \in [1..n -> 1..n] : \A i, j \in 1..n : i # j => p[i] # p[j]}

\* The orders in which an exhaustive scan may rank the stored vectors:
\* ascending by distance to q, entries at equal distance in any order.
\* (No scan takes place for a query faiss rejects.)
RankOrders(q) ==
    IF Len(q) # Dim THEN {<<>>}
    ELSE {p \in Orderings(Len(index)) :
            \A i, j \in 1..Len(index) :
                i < j => Distance(index[p[i]], q) <= Distance(index[p[j]], q)}

\* index.search(x, k): faiss asserts the query's length against d, and
\* returns k slots: the nearest vectors' distances D and 0-based labels I,
\* the slots it cannot fill holding FLT_MAX and -1.
FaissSearch(q, k, order) ==
    IF Len(q) # Dim
    THEN [err |-> "AssertionError", D |-> <<>>, I |-> <<>>]
    ELSE [err |-> None,
          D |-> [s \in 1..k |-> IF s <= Len(index)
                                THEN Distance(index[order[s]], q)
                                ELSE FLT_MAX],
          I |-> [s \in 1..k |-> IF s <= Len(index)
                                THEN order[s] - 1
                                ELSE NoLabel]]

\* The loop over zip(distances[0], indices[0]) from slot s on: a slot above
\* the threshold is skipped, every other slot subscripts texts and metadata
\* with its label and is appended.  labels lists the appended slots' labels.
RECURSIVE SearchLoop(_, _, _, _, _, _)
SearchLoop(D, I, thr, s, results, labels) ==
    IF s > Len(D)
    THEN [err |-> None, results |-> results, labels |-> labels]
    ELSE IF thr # NoThreshold /\ D[s] > thr[1]
    THEN SearchLoop(D, I, thr, s + 1, results, labels)
    ELSE LET t == PyIndex(texts, I[s])
             m == PyIndex(metadata, I[s])
         IN  IF ~t[1] \/ ~m[1]
             THEN [err |-> "IndexError", results |-> <<>>, labels |-> <<>>]
             ELSE SearchLoop(D, I, thr, s + 1,
                             Append(results,
                                    [text |-> t[2], pmid |-> m[2].pmid,
                                     score |-> D[s]]),
                             Append(labels, I[s]))

SearchResults_Prepend(D, I, thr) ==
    LET r == SearchLoop(D, I, thr, 1, <<>>, <<>>) IN
    [err |-> r.err,
     results |-> [i \in 1..Len(r.results) |->
                    r.results[Len(r.results) + 1 - i]],
     labels |-> [i \in 1..Len(r.labels) |-> r.labels[Len(r.labels) + 1 - i]]]

SearchResults_BySlot(D, I, thr) ==
    SearchLoop(D, [s \in 1..Len(I) |-> IF I[s] = NoLabel THEN NoLabel ELSE s - 1],
               thr, 1, <<>>, <<>>)

SearchResults(D, I, thr) == SearchLoop(D, I, thr, 1, <<>>, <<>>)

SearchEffect(q, k, thr, order) ==
    LET f == FaissSearch(q, k, order) IN
    IF f.err # None
    THEN [err |-> f.err, results |-> <<>>, labels |-> <<>>]
    ELSE SearchResults(f.D, f.I, thr)

Search(q, k, thr, order) ==
    /\ call' = [kind |-> "search", q |-> q, k |-> k, thr |-> thr]
                @@ SearchEffect(q, k, thr, order)
    /\ UNCHANGED <<index, texts, metadata>>
    /\ UNCHANGED gen_vars
    /\ UNCHANGED svc_vars

\* A new VectorStore(Dim), in a process that makes no other call.
Init ==
    /\ index = <<>>
    /\ texts = <<>>
    /\ metadata = <<>>
    /\ call = [kind |-> "init"]
    /\ env = [v \in EnvNames |-> TRUE]
    /\ app = "starting"
    /\ ga = [kind |-> "init"]
    /\ metric = [kind |-> "init"]
    /\ build = NoBuild
    /\ store = None
    /\ req = [kind |-> "init"]

Next ==
    \/ \E embs \in EmbeddingBatches, chunks \in ChunkBatches :
        Add(embs, chunks[1], chunks[2])
    \/ \E embs \in EmbeddingBatches, txts \in TextBatches :
        Len(txts) = Len(embs) /\ AddWithoutMetadata(embs, txts)
    \/ \E q \in QueryVectors :
        \E order \in RankOrders(q), k \in 1..MaxK, thr \in Thresholds :
            Search(q, k, thr, order)

Spec == Init /\ [][Next]_vars

(***************************************************************************)
(* Text.  A text is a sequence of symbols.  A symbol is one character that *)
(* the parse chain tells apart (a brace, a quote, a backslash, a newline,  *)
(* ...), a run of three backticks, or a word: a run of letters or digits   *)
(* that json, the regular expressions and the quote count all treat as     *)
(* ordinary characters.  Offsets count symbols.                            *)
(***************************************************************************)
Q == "\""          \* a double quote
BS == "\\"         \* a backslash
NL == "\n"         \* a newline
SP == " "
FENCE == "FENCE"    \* three backticks, one symbol
Whitespace == {SP, NL}

\* The number words of the model and their values, in tenths.
NumberValue ==
    [w \in {"0", "0.5", "1", "1.5"} |->
        CASE w = "0" -> 0 [] w = "0.5" -> 5 [] w = "1" -> 10 [] w = "1.5" -> 15]
NumberWords == DOMAIN NumberValue

SubText(s, a, b) == [i \in 1..(b - a + 1) |-> s[a + i - 1]]

(***************************************************************************)
(* json.loads.  A parse yields [ok, v, next, pos, msg]: the value and the  *)
(* index after it, or JSONDecodeError's pos (0-based) and msg.  Values:    *)
(*   [t |-> "str", s |-> text]      [t |-> "num", n |-> tenths]            *)
(*   [t |-> "arr", items |-> seq]   [t |-> "obj", keys |-> seq, vals |-> seq]*)
(***************************************************************************)
JsonFail(i, msg) ==
    [ok |-> FALSE, v |-> [t |-> "none"], next |-> 0, pos |-> i - 1, msg |-> msg]

JsonOk(v, next) ==
    [ok |-> TRUE, v |-> v, next |-> next, pos |-> 0, msg |-> ""]

RECURSIVE SkipWs(_, _)
SkipWs(s, i) ==
    IF i <= Len(s) /\ s[i] \in Whitespace THEN SkipWs(s, i + 1) ELSE i

\* The string whose opening quote is at start, scanned from j on.  A raw
\* newline inside a string is a control character, which json refuses.
RECURSIVE ScanString(_, _, _, _)
ScanString(s, start, j, acc) ==
    IF j > Len(s) THEN JsonFail(start, "Unterminated string starting at")
    ELSE IF s[j] = Q THEN JsonOk([t |-> "str", s |-> acc], j + 1)
    ELSE IF s[j] = NL THEN JsonFail(j, "Invalid control character at")
    ELSE IF s[j] = BS
    THEN IF j + 1 > Len(s)
         THEN JsonFail(start, "Unterminated string starting at")
         ELSE IF s[j + 1] \in {Q, BS}
         THEN ScanString(s, start, j + 2, Append(acc, s[j + 1]))
         ELSE JsonFail(j, "Invalid \\escape")
    ELSE ScanString(s, start, j + 1, Append(acc, s[j]))

RECURSIVE ParseValue(_, _)
RECURSIVE ParseMembers(_, _, _, _)
RECURSIVE ParseItems(_, _, _)

\* The members of an object from index j on, where a key must start.
ParseMembers(s, j, keys, vals) ==
    IF j > Len(s) \/ s[j] # Q
    THEN JsonFail(j, "Expecting property name enclosed in double quotes")
    ELSE LET k == ScanString(s, j, j + 1, <<>>) IN
    IF ~k.ok THEN k
    ELSE LET c == SkipWs(s, k.next) IN
    IF c > Len(s) \/ s[c] # ":" THEN JsonFail(c, "Expecting ':' delimiter")
    ELSE LET v == ParseValue(s, SkipWs(s, c + 1)) IN
    IF ~v.ok THEN v
    ELSE LET e == SkipWs(s, v.next) IN
    IF e <= Len(s) /\ s[e] = "}"
    THEN JsonOk([t |-> "obj", keys |-> Append(keys, k.v.s),
                 vals |-> Append(vals, v.v)], e + 1)
    ELSE IF e <= Len(s) /\ s[e] = ","
    THEN ParseMembers(s, SkipWs(s, e + 1), Append(keys, k.v.s),
                      Append(vals, v.v))
    ELSE JsonFail(e, "Expecting ',' delimiter")

\* The items of an array from index j on, where a value must start.
ParseItems(s, j, items) ==
    LET v == ParseValue(s, j) IN
    IF ~v.ok THEN v
    ELSE LET e == SkipWs(s, v.next) IN
    IF e <= Len(s) /\ s[e] = "]"
    THEN JsonOk([t |-> "arr", items |-> Append(items, v.v)], e + 1)
    ELSE IF e <= Len(s) /\ s[e] = ","
    THEN ParseItems(s, SkipWs(s, e + 1), Append(items, v.v))
    ELSE JsonFail(e, "Expecting ',' delimiter")

ParseValue(s, i) ==
    IF i > Len(s) THEN JsonFail(i, "Expecting value")
    ELSE IF s[i] = Q THEN ScanString(s, i, i + 1, <<>>)
    ELSE IF s[i] \in NumberWords
    THEN JsonOk([t |-> "num", n |-> NumberValue[s[i]]], i + 1)
    ELSE IF s[i] = "{"
    THEN LET j == SkipWs(s, i + 1) IN
         IF j <= Len(s) /\ s[j] = "}"
         THEN JsonOk([t |-> "obj", keys |-> <<>>, vals |-> <<>>], j + 1)
         ELSE ParseMembers(s, j, <<>>, <<>>)
    ELSE IF s[i] = "["
    THEN LET j == SkipWs(s, i + 1) IN
         IF j <= Len(s) /\ s[j] = "]"
         THEN JsonOk([t |-> "arr", items |-> <<>>], j + 1)
         ELSE ParseItems(s, j, <<>>)
    ELSE JsonFail(i, "Expecting value")

JsonLoads(s) ==
    LET v == ParseValue(s, SkipWs(s, 1)) IN
    IF ~v.ok THEN v
    ELSE LET e == SkipWs(s, v.next) IN
    IF e <= Len(s) THEN JsonFail(e, "Extra data") ELSE v

(***************************************************************************)
(* The two regular expressions and the newline repair of generate_answer.  *)
(* A match is [found, text].                                               *)
(***************************************************************************)
NoMatch == [found |-> FALSE, text |-> <<>>]

SetMin(S) == CHOOSE x \in S : \A y \in S : x <= y
SetMax(S) == CHOOSE x \in S : \A y \in S : x >= y

\* Where the group of ```(?:json)?\s*(\{.*?\})\s*``` ends when the match
\* starts at the fence at p: the opening brace must follow the fence, the
\* optional tag and white space; the lazy body stops at the first closing
\* brace that white space and a fence follow.  <<b, e>>, or <<>>.
FenceGroupAt(s, p) ==
    LET i == IF p + 1 <= Len(s) /\ s[p + 1] = "json" THEN p + 2 ELSE p + 1
        b == SkipWs(s, i)
        ends == {e \in (b + 1)..Len(s) :
                    /\ s[e] = "}"
                    /\ SkipWs(s, e + 1) <= Len(s)
                    /\ s[SkipWs(s, e + 1)] = FENCE}
    IN  IF b <= Len(s) /\ s[b] = "{" /\ ends # {}
        THEN <<b, SetMin(ends)>>
        ELSE <<>>

\* re.search(r'```(?:json)?\s*(\{.*?\})\s*```', s, re.DOTALL).group(1): the
\* leftmost fence at which the pattern matches.
FenceMatch(s) ==
    LET starts == {p \in 1..Len(s) : s[p] = FENCE /\ FenceGroupAt(s, p) # <<>>}
    IN  IF starts = {} THEN NoMatch
        ELSE LET g == FenceGroupAt(s, SetMin(starts))
             IN  [found |-> TRUE, text |-> SubText(s, g[1], g[2])]

\* re.search(r'\{.*\}', s, re.DOTALL).group(0): from the first opening
\* brace to the last closing brace.
BraceMatch(s) ==
    LET opens == {i \in 1..Len(s) : s[i] = "{"}
        closes == {i \in 1..Len(s) : s[i] = "}"}
    IN  IF opens # {} /\ closes # {} /\ SetMin(opens) < SetMax(closes)
        THEN [found |-> TRUE, text |-> SubText(s, SetMin(opens), SetMax(closes))]
        ELSE NoMatch

\* text.split('\n'), from index i on, cur being the line under way.
RECURSIVE SplitLines(_, _, _)
SplitLines(s, i, cur) ==
    IF i > Len(s) THEN <<cur>>
    ELSE IF s[i] = NL THEN <<cur>> \o SplitLines(s, i + 1, <<>>)
    ELSE SplitLines(s, i + 1, Append(cur, s[i]))

\* '\n'.join(lines)
RECURSIVE JoinLines(_)
JoinLines(lines) ==
    IF lines = <<>> THEN <<>>
    ELSE IF Len(lines) = 1 THEN lines[1]
    ELSE lines[1] \o <<NL>> \o JoinLines(Tail(lines))

\* line.strip()
RECURSIVE Strip(_)
Strip(line) ==
    IF line = <<>> THEN <<>>
    ELSE IF line[1] \in Whitespace THEN Strip(Tail(line))
    ELSE IF line[Len(line)] \in Whitespace
    THEN Strip(SubText(line, 1, Len(line) - 1))
    ELSE line

\* The quotes of a line that no backslash precedes.
QuoteCount(line) ==
    Cardinality({i \in 1..Len(line) :
                    line[i] = Q /\ (i = 1 \/ line[i - 1] # BS)})

\* The loop with the "middle of multiline string" branch appending the
\* line instead of merging it.
RECURSIVE MergeLines_NoMiddle(_, _, _, _)
MergeLines_NoMiddle(lines, i, result, in_string) ==
    IF i > Len(lines) THEN result
    ELSE LET odd == QuoteCount(lines[i]) % 2 = 1
             merged == [result EXCEPT ![Len(result)] =
                            @ \o <<SP>> \o Strip(lines[i])]
         IN  IF odd /\ in_string
             THEN MergeLines_NoMiddle(lines, i + 1, merged, FALSE)
             ELSE IF odd
             THEN MergeLines_NoMiddle(lines, i + 1, Append(result, lines[i]),
                                      TRUE)
             ELSE MergeLines_NoMiddle(lines, i + 1, Append(result, lines[i]),
                                      in_string)

\* The loop of escape_newlines_in_json_strings from line i on.
RECURSIVE MergeLines(_, _, _, _)
MergeLines(lines, i, result, in_string) ==
    IF i > Len(lines) THEN result
    ELSE LET odd == QuoteCount(lines[i]) % 2 = 1
             merged == [result EXCEPT ![Len(result)] =
                            @ \o <<SP>> \o Strip(lines[i])]
         IN  IF odd /\ in_string THEN MergeLines(lines, i + 1, merged, FALSE)
             ELSE IF odd THEN MergeLines(lines, i + 1,
                                         Append(result, lines[i]), TRUE)
             ELSE IF in_string THEN MergeLines(lines, i + 1, merged, TRUE)
             ELSE MergeLines(lines, i + 1, Append(result, lines[i]), FALSE)

escape_newlines_in_json_strings(text) ==
    JoinLines(MergeLines(SplitLines(text, 1, <<>>), 1, <<>>, FALSE))

(***************************************************************************)
(* MedicalAnswer( **parsed): the schema of schema.py.                       *)
(***************************************************************************)
HasKey(obj, key) == \E i \in 1..Len(obj.keys) : obj.keys[i] = <<key>>

\* A dict keeps the last value given for a key.
Lookup(obj, key) ==
    obj.vals[SetMax({i \in 1..Len(obj.keys) : obj.keys[i] = <<key>>})]

IsStrField(obj, key) == HasKey(obj, key) /\ Lookup(obj, key).t = "str"

\* A float field takes a number, or a string that reads as one.
IsFloat(v) ==
    \/ v.t = "num"
    \/ v.t = "str" /\ Len(v.s) = 1 /\ v.s[1] \in NumberWords

FloatOf(v) == IF v.t = "num" THEN v.n ELSE NumberValue[v.s[1]]

\* class Evidence: pmid: str, excerpt: str
IsEvidence(v) ==
    v.t = "obj" /\ IsStrField(v, "pmid") /\ IsStrField(v, "excerpt")

\* class MedicalAnswer: question: str, answer_summary: str,
\* evidence: List[Evidence], confidence: float (any float)
ShapeOk(obj) ==
    /\ IsStrField(obj, "question")
    /\ IsStrField(obj, "answer_summary")
    /\ HasKey(obj, "evidence")
    /\ Lookup(obj, "evidence").t = "arr"
    /\ \A i \in 1..Len(Lookup(obj, "evidence").items) :
            IsEvidence(Lookup(obj, "evidence").items[i])
    /\ HasKey(obj, "confidence")
    /\ IsFloat(Lookup(obj, "confidence"))

NoAnswer ==
    [question |-> <<>>, answer_summary |-> <<>>, evidence |-> <<>>,
     confidence |-> 0]

\* MedicalAnswer( **parsed): [exc, answer].  ** on anything but a dict is a
\* TypeError; a dict of the wrong shape is pydantic's ValidationError.
MedicalAnswer(parsed) ==
    IF parsed.t # "obj" THEN [exc |-> "TypeError", answer |-> NoAnswer]
    ELSE IF ~ShapeOk(parsed)
    THEN [exc |-> "ValidationError", answer |-> NoAnswer]
    ELSE [exc |-> None,
          answer |->
            [question |-> Lookup(parsed, "question").s,
             answer_summary |-> Lookup(parsed, "answer_summary").s,
             evidence |->
                [i \in 1..Len(Lookup(parsed, "evidence").items) |->
                    [pmid |-> Lookup(Lookup(parsed, "evidence").items[i],
                                     "pmid").s,
                     excerpt |-> Lookup(Lookup(parsed, "evidence").items[i],
                                        "excerpt").s]],
             confidence |-> FloatOf(Lookup(parsed, "confidence"))]]

(***************************************************************************)
(* LLMClient and generate_answer (llm.py).                                 *)
(***************************************************************************)
\* LLMClient.__init__: a ValueError unless the three variables are set.
LLMClientInit(e) ==
    IF \A v \in EnvNames : e[v] THEN None ELSE "ValueError"

INSUFFICIENT == <<"Insufficient evidence available in the retrieved literature.">>

\* The outcome of generate_answer: the exception raised (None when it
\* returns), its message, the answer returned, whether llm.generate was
\* called, the strategy that produced the parsed object ("none" when none
\* did), what MedicalAnswer made of that object, the strategies tried in
\* their order, JSONDecodeError's msg and pos as reported, and raw_output as
\* the diagnostics read it.
Outcome(exc, msg, answer, invoked, strategy, shape, tried, jmsg, pos, raw) ==
    [exc |-> exc, msg |-> msg, answer |-> answer, llm_invoked |-> invoked,
     strategy |-> strategy, shape |-> shape, tried |-> tried,
     jmsg |-> jmsg, pos |-> pos, raw_output |-> raw]

ShapeOf(v) ==
    IF v.t # "obj" THEN "not_a_dict"
    ELSE IF ShapeOk(v) THEN "ok" ELSE "bad_shape"

\* return MedicalAnswer( **parsed) at lines 190, 202 and 283: what it raises
\* leaves generate_answer as it is (except ValueError: raise, except
\* Exception: raise).
Validated(v, strategy, tried, raw) ==
    Outcome(MedicalAnswer(v).exc,
            IF MedicalAnswer(v).exc = None THEN "" ELSE "validation",
            MedicalAnswer(v).answer, TRUE, strategy, ShapeOf(v), tried,
            "", 0, raw)

\* Lines 258-281: the repaired text is parsed and validated inside
\* try/except Exception, so whatever fails there becomes the ValueError
\* built from the first parse's error e.
Repaired(raw, tried, e) ==
    LET c == JsonLoads(escape_newlines_in_json_strings(raw)) IN
    IF c.ok /\ MedicalAnswer(c.v).exc = None
    THEN Validated(c.v, "repair", Append(tried, "repair"), raw)
    ELSE Outcome("ValueError", "LLM returned invalid JSON", NoAnswer, TRUE,
                 IF c.ok THEN "repair" ELSE "none",
                 IF c.ok THEN ShapeOf(c.v) ELSE "unparsed",
                 Append(tried, "repair"), e.msg, e.pos, raw)

\* Lines 194-204, on raw_output as the fence step left it.
BraceThenRepair(raw, tried, e) ==
    LET bm == BraceMatch(raw) IN
    IF bm.found /\ JsonLoads(bm.text).ok
    THEN Validated(JsonLoads(bm.text).v, "brace", Append(tried, "brace"), raw)
    ELSE Repaired(raw, IF bm.found THEN Append(tried, "brace") ELSE tried, e)

\* The chain without its fenced-block step.
ParseChain_NoFence(raw) ==
    LET d == JsonLoads(raw) IN
    IF d.ok THEN Validated(d.v, "direct", <<"direct">>, raw)
    ELSE BraceThenRepair(raw, <<"direct">>, d)

\* Lines 175-283: the chain on the text llm.generate returned.  A fence
\* match is assigned to raw_output, which the later steps then read.
ParseChain(raw) ==
    LET d == JsonLoads(raw) IN
    IF d.ok THEN Validated(d.v, "direct", <<"direct">>, raw)
    ELSE LET fm == IF \E i \in 1..Len(raw) : raw[i] = FENCE
                   THEN FenceMatch(raw) ELSE NoMatch
         IN  IF ~fm.found THEN BraceThenRepair(raw, <<"direct">>, d)
             ELSE IF JsonLoads(fm.text).ok
             THEN Validated(JsonLoads(fm.text).v, "fence",
                            <<"direct", "fence">>, fm.text)
             ELSE BraceThenRepair(fm.text, <<"direct", "fence">>, d)

\* generate_answer(question, retrieved_chunks), the backend answering with
\* response: a text, None, or an exception.
GenerateAnswerEffect_NoShortCircuit(question, chunks, response) ==
    IF LLMClientInit(env) # None
    THEN Outcome("ValueError", "Missing required environment variables",
                 NoAnswer, FALSE, "none", "unparsed", <<>>, "", 0, <<>>)
    ELSE IF response.kind = "raise"
    THEN Outcome("BackendError", "", NoAnswer, TRUE, "none", "unparsed",
                 <<>>, "", 0, <<>>)
    ELSE IF response.kind = "none"
    THEN Outcome("TypeError", "", NoAnswer, TRUE, "none", "unparsed",
                 <<"direct">>, "", 0, <<>>)
    ELSE ParseChain(response.text)

GenerateAnswerEffect(question, chunks, response) ==
    IF LLMClientInit(env) # None
    THEN Outcome("ValueError", "Missing required environment variables",
                 NoAnswer, FALSE, "none", "unparsed", <<>>, "", 0, <<>>)
    ELSE IF chunks = <<>>
    THEN Outcome(None, "",
                 [question |-> question, answer_summary |-> INSUFFICIENT,
                  evidence |-> <<>>, confidence |-> 0],
                 FALSE, "none", "unparsed", <<>>, "", 0, <<>>)
    ELSE IF response.kind = "raise"
    THEN Outcome("BackendError", "", NoAnswer, TRUE, "none", "unparsed",
                 <<>>, "", 0, <<>>)
    ELSE IF response.kind = "none"
    THEN Outcome("TypeError", "", NoAnswer, TRUE, "none", "unparsed",
                 <<"direct">>, "", 0, <<>>)
    ELSE ParseChain(response.text)

(***************************************************************************)
(* The backend's responses: answer objects in two layouts, as they are,    *)
(* fenced, or inside prose; and texts no strategy parses.                  *)
(***************************************************************************)
Str(t) == <<Q>> \o t \o <<Q>>

Member(key, value) == <<Q, key, Q, ":", SP>> \o value

RECURSIVE JoinWith(_, _)
JoinWith(parts, sep) ==
    IF parts = <<>> THEN <<>>
    ELSE IF Len(parts) = 1 THEN parts[1]
    ELSE parts[1] \o sep \o JoinWith(Tail(parts), sep)

Object(members, sep) == <<"{">> \o JoinWith(members, sep) \o <<"}">>

Layouts == {<<",", SP>>, <<",", NL, SP>>}

\* Summaries: on one line, and with one or two raw newlines inside.
SummaryTexts == {<<"x">>, <<"x", NL, "y">>, <<"x", NL, "y", NL, "z">>}

EvidenceTexts ==
    {<<"[", "]">>,
     <<"[">> \o Object(<<Member("pmid", Str(<<"1">>)),
                         Member("excerpt", Str(<<"x">>))>>, <<",", SP>>)
            \o <<"]">>,
     Str(<<"x">>)}

ConfidenceTexts == {<<w>> : w \in NumberWords} \cup {Str(<<"high">>)}

AnswerObjects ==
    {Object(<<Member("question", Str(<<"q">>)),
              Member("answer_summary", Str(sm)),
              Member("evidence", ev),
              Member("confidence", c)>>, sep) :
        sm \in SummaryTexts, ev \in EvidenceTexts, c \in ConfidenceTexts,
        sep \in Layouts}
    \cup
    {Object(<<Member("question", Str(<<"q">>)),
              Member("answer_summary", Str(sm)),
              Member("evidence", <<"[", "]">>)>>, <<",", SP>>) :
        sm \in SummaryTexts}

Fenced(t) == <<FENCE, "json", NL>> \o t \o <<NL, FENCE>>
FencedInProse(t) == <<"x", NL, FENCE, NL>> \o t \o <<NL, FENCE, NL, "y">>
InProse(t) == <<"x", SP>> \o t \o <<SP, "y">>

OtherTexts ==
    {<<>>, <<"x">>, <<"[", "]">>, Str(<<"x">>), <<"0.5">>,
     <<"{", Q, "x">>, <<"x", "}", SP, "{", "y">>,
     <<FENCE, "{", "x", "}", FENCE>>,
     <<"{", "}", FENCE, "json", "{", "x", "}", SP, "y", "}", NL, FENCE>>}

ResponseTexts ==
    AnswerObjects
    \cup {Fenced(t) : t \in AnswerObjects}
    \cup {FencedInProse(t) : t \in AnswerObjects}
    \cup {InProse(t) : t \in AnswerObjects}
    \cup OtherTexts

Responses ==
    {[kind |-> "text", text |-> t] : t \in ResponseTexts}
    \cup {[kind |-> "raise", text |-> <<>>], [kind |-> "none", text |-> <<>>]}

Questions == {<<"q">>, <<"r">>}

\* What store.search hands to generate_answer.
ChunkLists ==
    {<<>>,
     <<[text |-> "a", pmid |-> "1", score |-> 0]>>,
     <<[text |-> "a", pmid |-> "1", score |-> 0],
       [text |-> "b", pmid |-> "2", score |-> 1]>>}

(***************************************************************************)
(* The process around generate_answer.                                     *)
(***************************************************************************)
\* AppState.__init__ builds an LLMClient: with a variable missing the
\* process fails at startup (api.py's lifespan and main.py both build the
\* AppState before they take a question).
AppStateInit ==
    /\ app = "starting"
    /\ app' = IF LLMClientInit(env) = None THEN "ready" ELSE "failed"
    /\ UNCHANGED <<env, ga>>
    /\ UNCHANGED store_vars
    /\ UNCHANGED svc_vars

\* A call of generate_answer, which only ask makes, for a process that is
\* up.  generate_answer keeps nothing from one call to the next, so a
\* behaviour holds one call.
GenerateAnswer(question, chunks, response) ==
    /\ app = "ready"
    /\ ga.kind = "init"
    /\ ga' = [kind |-> "generate_answer", question |-> question,
              chunks |-> chunks, response |-> response]
             @@ GenerateAnswerEffect(question, chunks, response)
    /\ UNCHANGED <<env, app>>
    /\ UNCHANGED store_vars
    /\ UNCHANGED svc_vars

InitGen ==
    /\ index = <<>>
    /\ texts = <<>>
    /\ metadata = <<>>
    /\ call = [kind |-> "init"]
    /\ env \in [EnvNames -> BOOLEAN]
    /\ app = "starting"
    /\ ga = [kind |-> "init"]
    /\ metric = [kind |-> "init"]
    /\ build = NoBuild
    /\ store = None
    /\ req = [kind |-> "init"]

NextGen ==
    \/ AppStateInit
    \/ \E question \in Questions, chunks \in ChunkLists,
          response \in Responses :
            GenerateAnswer(question, chunks, response)

SpecGen == InitGen /\ [][NextGen]_vars

(***************************************************************************)
(* The metrics of evaluation.py.                                           *)
(***************************************************************************)
MaxPmids == 3     \* a pmid list holds at most this many pmids
MaxTokens == 2    \* a classifier response is made of at most this many tokens

Pmids == {"1", "2", "3"}

RECURSIVE SeqsUpTo(_, _)
SeqsUpTo(S, n) ==
    IF n = 0 THEN {<<>>}
    ELSE SeqsUpTo(S, n - 1)
         \cup {Append(s, x) : s \in {t \in SeqsUpTo(S, n - 1) : Len(t) = n - 1},
                              x \in S}

PmidLists == SeqsUpTo(Pmids, MaxPmids)

\* ground_truth_pmids: a list, or None when the caller gives none.
NoGroundTruth == [given |-> FALSE, pmids |-> <<>>]
GroundTruths == {NoGroundTruth} \cup {[given |-> TRUE, pmids |-> l] : l \in PmidLists}

ToSet(l) == {l[i] : i \in 1..Len(l)}

\* A float that is a quotient of two integers.
Ratio(n, d) == [num |-> n, den |-> d]
Sentinel == Ratio(-1, 1)

\* retrieval_recall(retrieved_pmids, ground_truth_pmids), with the hits
\* counted over the retrieved list instead of the set.
retrieval_recall_ListHits(retrieved, gt) ==
    IF ~gt.given \/ gt.pmids = <<>> THEN Sentinel
    ELSE Ratio(Cardinality({i \in 1..Len(retrieved) :
                               retrieved[i] \in ToSet(gt.pmids)}),
               Len(gt.pmids))

\* retrieval_recall(retrieved_pmids, ground_truth_pmids): "not x" holds of
\* None and of the empty list; the hits are counted on sets, the divisor is
\* the length of the list.
retrieval_recall(retrieved, gt) ==
    IF ~gt.given \/ gt.pmids = <<>> THEN Sentinel
    ELSE Ratio(Cardinality(ToSet(retrieved) \cap ToSet(gt.pmids)),
               Len(gt.pmids))

\* The characters of a classifier response, and str.upper() on them.
Upper(c) ==
    CASE c = "y" -> "Y" [] c = "e" -> "E" [] c = "s" -> "S"
      [] c = "n" -> "N" [] c = "o" -> "O" [] c = "m" -> "M"
      [] c = "a" -> "A" [] c = "b" -> "B" [] c = "t" -> "T"
      [] OTHER -> c

UpperText(s) == [i \in 1..Len(s) |-> Upper(s[i])]

\* sub in s, for two str.
Contains(s, sub) ==
    \E i \in 1..(Len(s) - Len(sub) + 1) : SubText(s, i, i + Len(sub) - 1) = sub

YES == <<"Y", "E", "S">>
NO == <<"N", "O">>

\* The tokens classifier responses are made of.
FaithTokens ==
    {YES, NO, <<"y", "e", "s">>, <<"N", "o">>, <<"n", "o", "t">>,
     <<"m", "a", "y", "b", "e">>, <<SP>>, <<NL>>}

RECURSIVE Flatten(_)
Flatten(ss) == IF ss = <<>> THEN <<>> ELSE ss[1] \o Flatten(Tail(ss))

FaithTexts == {Flatten(ts) : ts \in SeqsUpTo(FaithTokens, MaxTokens)}

\* What llm_client.generate does for the classification prompt: it returns
\* a text, returns None (a message without content), or raises.
FaithResponses ==
    {[kind |-> "text", text |-> t] : t \in FaithTexts}
    \cup {[kind |-> "raise", text |-> <<>>], [kind |-> "none", text |-> <<>>]}

\* check_faithfulness without its try/except: [result, raised].
check_faithfulness_NoCatch(response) ==
    IF response.kind = "raise"
    THEN [result |-> FALSE, raised |-> "BackendError"]
    ELSE IF response.kind = "none"
    THEN [result |-> FALSE, raised |-> "AttributeError"]
    ELSE LET result_clean == UpperText(Strip(response.text)) IN
         [result |-> Contains(result_clean, NO), raised |-> None]

\* check_faithfulness(llm_client, answer, context), llm_client.generate
\* answering the prompt with response: [result, raised].  "NO" is looked
\* for first; every exception (generate's, or None.strip()) is caught.
check_faithfulness(response) ==
    IF response.kind # "text"
    THEN [result |-> FALSE, raised |-> None]
    ELSE LET result_clean == UpperText(Strip(response.text)) IN
         IF Contains(result_clean, NO) THEN [result |-> TRUE, raised |-> None]
         ELSE IF Contains(result_clean, YES)
         THEN [result |-> FALSE, raised |-> None]
         ELSE [result |-> FALSE, raised |-> None]

\* The functions keep nothing between calls: a behaviour holds one call.
RetrievalRecall(retrieved, gt) ==
    /\ metric.kind = "init"
    /\ metric' = [kind |-> "retrieval_recall", retrieved |-> retrieved,
                  ground_truth |-> gt, result |-> retrieval_recall(retrieved, gt)]
    /\ UNCHANGED <<build, store, req>>
    /\ UNCHANGED store_vars
    /\ UNCHANGED gen_vars

CheckFaithfulness(response) ==
    /\ metric.kind = "init"
    /\ metric' = [kind |-> "check_faithfulness", response |-> response]
                 @@ check_faithfulness(response)
    /\ UNCHANGED <<build, store, req>>
    /\ UNCHANGED store_vars
    /\ UNCHANGED gen_vars

NextEval ==
    \/ \E retrieved \in PmidLists, gt \in GroundTruths :
        RetrievalRecall(retrieved, gt)
    \/ \E response \in FaithResponses : CheckFaithfulness(response)

SpecEval == Init /\ [][NextEval]_vars

(***************************************************************************)
(* The service: AppState.build_index (app_state.py), ask (pipeline.py) and *)
(* the /query handler (api.py).  The VectorStore that build_index makes is *)
(* the store of index, texts and metadata; AppState.store refers to it     *)
(* once it is assigned.                                                    *)
(***************************************************************************)
DefaultK == 5     \* search's default k, which ask uses

\* The abstracts fetch_pubmed_with_cache returns, each with the chunks
\* chunk_text makes of its text.
DocA == [pmid |-> "1", chunks |-> <<"a">>]
DocB == [pmid |-> "2", chunks |-> <<"b">>]
DocAB == [pmid |-> "1", chunks |-> <<"a", "b">>]
Corpora == {<<>>, <<DocA>>, <<DocAB>>, <<DocA, DocB>>}

\* The loop of lines 53-57: a chunk and its pmid are appended together.
RECURSIVE ChunksOf(_)
ChunksOf(docs) ==
    IF docs = <<>> THEN <<>>
    ELSE docs[1].chunks \o ChunksOf(Tail(docs))

RECURSIVE MetadataOf(_)
MetadataOf(docs) ==
    IF docs = <<>> THEN <<>>
    ELSE [i \in 1..Len(docs[1].chunks) |-> [pmid |-> docs[1].pmid]]
         \o MetadataOf(Tail(docs))

\* Embedder.embed(texts): one row of the model's dimension for each text,
\* the same row for the same text.
EmbedChunk(text) == IF text = "a" THEN Unit(1) ELSE Unit(Dim)
Embed(chunks) == [i \in 1..Len(chunks) |-> EmbedChunk(chunks[i])]

\* The statements of build_index in their order, with the assignment of
\* self.store moved before store.add.
BuildSteps_AssignFirst ==
    <<"fetch", "embed", "new_store", "assign", "index_add", "texts_extend",
      "metadata_extend">>

\* The statements of build_index in their order; store.add is the three
\* statements of VectorStore.add.
BuildSteps ==
    <<"fetch", "embed", "new_store", "index_add", "texts_extend",
      "metadata_extend", "assign">>

AtStep(name) ==
    /\ app = "ready"
    /\ build.pc \in 1..Len(BuildSteps)
    /\ BuildSteps[build.pc] = name

\* An exception leaves build_index and lifespan, which re-raises it: the
\* server does not come up.
BuildFails(err) ==
    /\ build' = [build EXCEPT !.pc = Len(BuildSteps) + 2, !.err = err]
    /\ app' = "failed"

BuildStepDone == build' = [build EXCEPT !.pc = @ + 1]

\* lifespan, lines 32-33: AppState() and then build_index().
Lifespan ==
    /\ app = "starting"
    /\ app' = IF LLMClientInit(env) = None THEN "ready" ELSE "failed"
    /\ build' = [NoBuild EXCEPT !.pc = IF LLMClientInit(env) = None THEN 1 ELSE 0]
    /\ UNCHANGED <<env, ga, metric, store, req>>
    /\ UNCHANGED store_vars

\* Lines 42-57: the abstracts are fetched (or the fetch raises) and chunked.
BuildFetch(fetched) ==
    /\ AtStep("fetch")
    /\ IF fetched.err # None
       THEN BuildFails(fetched.err)
       ELSE /\ build' = [build EXCEPT !.pc = @ + 1,
                                      !.all_chunks = ChunksOf(fetched.docs),
                                      !.metadata = MetadataOf(fetched.docs)]
            /\ UNCHANGED app
    /\ UNCHANGED <<env, ga, metric, store, req>>
    /\ UNCHANGED store_vars

\* Line 61: embeddings = self.embedder.embed(all_chunks), which may raise.
BuildEmbed(raises) ==
    /\ AtStep("embed")
    /\ IF raises
       THEN BuildFails("EmbeddingError")
       ELSE /\ build' = [build EXCEPT !.pc = @ + 1,
                                      !.embeddings = Embed(build.all_chunks)]
            /\ UNCHANGED app
    /\ UNCHANGED <<env, ga, metric, store, req>>
    /\ UNCHANGED store_vars

\* Line 63: store = VectorStore(dim=len(embeddings[0])); embeddings[0] is an
\* IndexError when nothing was embedded.
BuildNewStore ==
    /\ AtStep("new_store")
    /\ IF build.embeddings = <<>>
       THEN BuildFails("IndexError") /\ UNCHANGED <<index, texts, metadata>>
       ELSE /\ BuildStepDone
            /\ index' = <<>>
            /\ texts' = <<>>
            /\ metadata' = <<>>
            /\ UNCHANGED app
    /\ UNCHANGED <<env, ga, metric, store, req, call>>

\* Line 64, store.add(embeddings, all_chunks, metadata): its three
\* statements, vector_store.py lines 15, 16 and 17.
BuildIndexAdd ==
    /\ AtStep("index_add")
    /\ IF FaissAddError(build.embeddings) # None
       THEN BuildFails(FaissAddError(build.embeddings)) /\ UNCHANGED index
       ELSE /\ BuildStepDone
            /\ index' = index \o build.embeddings
            /\ UNCHANGED app
    /\ UNCHANGED <<env, ga, metric, store, req, call, texts, metadata>>

BuildTextsExtend ==
    /\ AtStep("texts_extend")
    /\ BuildStepDone
    /\ texts' = texts \o build.all_chunks
    /\ UNCHANGED <<env, app, ga, metric, store, req, call, index, metadata>>

BuildMetadataExtend ==
    /\ AtStep("metadata_extend")
    /\ BuildStepDone
    /\ metadata' = metadata \o build.metadata
    /\ UNCHANGED <<env, app, ga, metric, store, req, call, index, texts>>

\* Line 65: self.store = store.
BuildAssign ==
    /\ AtStep("assign")
    /\ BuildStepDone
    /\ store' = "VectorStore"
    /\ UNCHANGED <<env, app, ga, metric, req>>
    /\ UNCHANGED store_vars

(***************************************************************************)
(* ask (pipeline.py) and the /query handler (api.py).                      *)
(***************************************************************************)
\* embedder.embed([question])[0]: the call raises, or gives a vector.
EmbedRaises == [err |-> "EmbeddingError", vec |-> Zero]
Embedded(v) == [err |-> None, vec |-> v]

\* The embedder of the AppState, which also embedded the chunks.
AppEmbeddings == {EmbedRaises, Embedded(Zero), Embedded(Unit(1))}
\* The embedder a caller of ask passes: its dimension may not be the
\* index's.
AskEmbeddings == AppEmbeddings \cup {Embedded(Short)}

\* The texts the backend returns to generate_answer within ask.
AskGenResponses ==
    {[kind |-> "text", text |-> t] :
        t \in {Object(<<Member("question", Str(<<"q">>)),
                        Member("answer_summary", Str(<<"x">>)),
                        Member("evidence", <<"[", "]">>),
                        Member("confidence", <<"0.5">>)>>, <<",", SP>>),
               <<"x">>}}
    \cup {[kind |-> "raise", text |-> <<>>]}

AskFaithResponses ==
    {[kind |-> "text", text |-> t] : t \in {NO, YES, <<"m", "a", "y", "b", "e">>}}
    \cup {[kind |-> "raise", text |-> <<>>], [kind |-> "none", text |-> <<>>]}

AskGroundTruths ==
    {NoGroundTruth, [given |-> TRUE, pmids |-> <<>>],
     [given |-> TRUE, pmids |-> <<"1">>],
     [given |-> TRUE, pmids |-> <<"1", "3">>]}

\* What a call of ask comes to: the exception that leaves it (None when it
\* returns), the object returned (<<>> when none is), the calls it made in
\* their order, and what search and generate_answer raised.
AskOutcome(exc, result, calls, search_err, gen_exc) ==
    [exc |-> exc, result |-> result, calls |-> calls,
     search_err |-> search_err, gen_exc |-> gen_exc]

NotCalled == "not called"

AskReturn(answer, recall, faithful, calls) ==
    AskOutcome(None,
               <<[result |-> answer,
                  metrics |-> [retrieval_recall |-> recall,
                               faithful |-> faithful]]>>,
               calls, None, None)

\* The one element of a singleton: Only({F(x) : x \in {e}}) is F(e), with e
\* evaluated once.
Only(S) == CHOOSE x \in S : TRUE

CallsOfAsk ==
    <<"embed", "search", "generate_answer", "retrieval_recall",
      "check_faithfulness">>

\* Lines 44-67 of ask, with what generate_answer raises swallowed: g is
\* generate_answer's outcome, f check_faithfulness's.
AskEvaluate_Swallow(g, recall, f) ==
    AskOutcome(None,
               <<[result |-> g.answer,
                  metrics |-> [retrieval_recall |-> recall,
                               faithful |-> f.result]]>>,
               CallsOfAsk, None, g.exc)

\* Lines 44-67 of ask: g is generate_answer's outcome (an exception leaves
\* ask at line 45), recall what retrieval_recall returned, f
\* check_faithfulness's outcome.
AskEvaluate(g, recall, f) ==
    IF g.exc # None
    THEN AskOutcome(g.exc, <<>>, SubSeq(CallsOfAsk, 1, 3), None, g.exc)
    ELSE IF f.raised # None
    THEN AskOutcome(f.raised, <<>>, CallsOfAsk, None, None)
    ELSE AskReturn(g.answer, recall, f.result, CallsOfAsk)

\* Lines 40-53: retrieved_pmids, generate_answer, retrieval_recall, the
\* context and check_faithfulness, on what search returned.
AskGenerate(question, gt, retrieved, gen, faith) ==
    Only({AskEvaluate(g, recall, f) :
            g \in {GenerateAnswerEffect(question, retrieved, gen)},
            recall \in {retrieval_recall(
                           [i \in 1..Len(retrieved) |-> retrieved[i].pmid],
                           gt)},
            f \in {check_faithfulness(faith)}})

AskSearched(question, gt, s, gen, faith) ==
    IF s.err # None
    THEN AskOutcome(s.err, <<>>, <<"embed", "search">>, s.err, NotCalled)
    ELSE AskGenerate(question, gt, s.results, gen, faith)

\* ask(question, store, embedder, llm_client, ground_truth_pmids): emb is
\* what embedder.embed does, order the rank faiss gives to ties, gen and
\* faith what the backend answers to the two prompts.
ask(question, gt, emb, order, gen, faith) ==
    IF emb.err # None
    THEN AskOutcome(emb.err, <<>>, <<"embed">>, NotCalled, NotCalled)
    ELSE Only({AskSearched(question, gt, s, gen, faith) :
                 s \in {SearchEffect(emb.vec, DefaultK, NoThreshold, order)}})

NoAsk == AskOutcome(None, <<>>, <<>>, NotCalled, NotCalled)

\* The except clause of query_medrag: whatever Exception the try block
\* raises, the HTTPException(503) of line 74 included, is answered with
\* status 500 and str(e) as detail.
NotReady == "Index not ready. Please wait for startup to complete."

HttpError(status, detail) == [status |-> status, detail |-> detail]

ExceptException(exc) ==
    HttpError(500, IF exc = "HTTPException" THEN "str(HTTPException(503))"
                   ELSE exc)

\* The try block of query_medrag once ask has come to a.
Respond(a) ==
    IF a.exc # None
    THEN ExceptException(a.exc) @@ [ask |-> a]
    ELSE [status |-> 200, detail |-> "", ask |-> a]

\* query_medrag(request): [status, detail, ask].
query_medrag(question, gt, emb, order, gen, faith) ==
    IF store = None
    THEN ExceptException("HTTPException") @@ [ask |-> NoAsk]
    ELSE Only({Respond(a) : a \in {ask(question, gt, emb, order, gen, faith)}})

\* A request to /query, handled while the AppState exists.  The handler
\* keeps nothing between requests: a behaviour holds one.
Query(question, gt, emb, gen, faith) ==
    /\ app = "ready"
    /\ req.kind = "init"
    /\ \E order \in RankOrders(emb.vec) :
        req' = [kind |-> "query", store_seen |-> store,
                seen |-> <<Len(index), Len(texts), Len(metadata)>>,
                ground_truth |-> gt, emb |-> emb, gen |-> gen, faith |-> faith]
               @@ query_medrag(question, gt, emb, order, gen, faith)
    /\ UNCHANGED <<env, app, ga, metric, build, store>>
    /\ UNCHANGED store_vars

\* A call of ask by a caller of its own (main.py's loop, after build_index
\* has returned), with the store of the AppState and an embedder of the
\* caller's choice.
Ask(question, gt, emb, gen, faith) ==
    /\ app = "ready"
    /\ store # None
    /\ req.kind = "init"
    /\ \E order \in RankOrders(emb.vec) :
        req' = [kind |-> "ask", store_seen |-> store,
                seen |-> <<Len(index), Len(texts), Len(metadata)>>,
                ground_truth |-> gt, emb |-> emb, gen |-> gen, faith |-> faith,
                status |-> 0, detail |-> "",
                ask |-> ask(question, gt, emb, order, gen, faith)]
    /\ UNCHANGED <<env, app, ga, metric, build, store>>
    /\ UNCHANGED store_vars

NextApp ==
    \/ Lifespan
    \/ \E docs \in Corpora : BuildFetch([err |-> None, docs |-> docs])
    \/ BuildFetch([err |-> "FetchError", docs |-> <<>>])
    \/ \E raises \in BOOLEAN : BuildEmbed(raises)
    \/ BuildNewStore
    \/ BuildIndexAdd
    \/ BuildTextsExtend
    \/ BuildMetadataExtend
    \/ BuildAssign
    \/ \E question \in Questions, gt \in AskGroundTruths,
          emb \in AppEmbeddings, gen \in AskGenResponses,
          faith \in AskFaithResponses :
            Query(question, gt, emb, gen, faith)
    \/ \E question \in Questions, gt \in AskGroundTruths,
          emb \in AskEmbeddings, gen \in AskGenResponses,
          faith \in AskFaithResponses :
            Ask(question, gt, emb, gen, faith)

SpecApp == InitGen /\ [][NextApp]_vars

(***************************************************************************)
(* Properties of the vector store, checked under Spec.                     *)
(***************************************************************************)
StoreParallel ==
    /\ Len(index) = Len(texts)
    /\ Len(index) = Len(metadata)

\* C1: in every reachable state the index holds as many vectors as there
\* are texts and as there are metadata entries.
C1_SequencesParallel == StoreParallel

\* C2: an add whose number of embeddings differs from its number of texts
\* or of metadata entries fails, and leaves index, texts and metadata as
\* they were.
C2_LengthMismatchRejected ==
    [][(call'.kind = "add"
        /\ (call'.n_emb # call'.n_texts \/ call'.n_emb # call'.n_meta))
       => (call'.err # None
           /\ index' = index /\ texts' = texts /\ metadata' = metadata)]_vars

\* C3: an add holding an embedding whose length is not dim fails, and
\* leaves index, texts and metadata as they were.
C3_BadDimensionRejected ==
    [][(call'.kind = "add" /\ call'.bad_dim)
       => (call'.err # None
           /\ index' = index /\ texts' = texts /\ metadata' = metadata)]_vars

\* A ragged batch (a good row, then a short one) was refused by a store
\* that already holds an entry.
C3_Witness ==
    /\ call.kind = "add" /\ call.bad_dim
    /\ call.n_emb = 2 /\ call.n_texts = 2 /\ call.n_meta = 2
    /\ call.err = "ValueError"
    /\ Len(index) = 1 /\ Len(texts) = 1 /\ Len(metadata) = 1

\* C4: search on a store that holds nothing returns the empty list and
\* raises nothing, for every k >= 1, with or without a threshold.
C4_EmptyStoreSearchIsEmpty ==
    (/\ call.kind = "search"
     /\ Len(call.q) = Dim
     /\ index = <<>> /\ texts = <<>> /\ metadata = <<>>)
    => (call.err = None /\ call.results = <<>>)

\* C5: on a store of n entries, search without a threshold returns exactly
\* min(k, n) results, each a distinct stored entry with its own text, pmid
\* and distance, and no entry left out is nearer than one returned.
C5_ExactlyMinKNDistinct ==
    (/\ call.kind = "search"
     /\ call.thr = NoThreshold
     /\ Len(call.q) = Dim
     /\ StoreParallel /\ index # <<>>)
    => (/\ call.err = None
        /\ Len(call.results) = Min(call.k, Len(index))
        /\ \A i \in 1..Len(call.results) :
            /\ call.labels[i] \in 0..(Len(index) - 1)
            /\ call.results[i] =
                 [text |-> texts[call.labels[i] + 1],
                  pmid |-> metadata[call.labels[i] + 1].pmid,
                  score |-> Distance(index[call.labels[i] + 1], call.q)]
            /\ \A j \in 1..Len(call.results) :
                 i # j => call.labels[i] # call.labels[j]
            /\ \A e \in 1..Len(index) :
                 (\A j \in 1..Len(call.results) : call.labels[j] # e - 1)
                 => Distance(index[e], call.q) >= call.results[i].score)

\* C6: a list returned by search has at most k elements, and its scores
\* never decrease from one element to the next.
C6_AtMostKSorted ==
    (call.kind = "search" /\ call.err = None)
    => (/\ Len(call.results) <= call.k
        /\ \A i, j \in 1..Len(call.results) :
             i < j => call.results[i].score <= call.results[j].score)

\* A search with a threshold that dropped a slot and returned two results
\* of different scores.
C6_Witness ==
    /\ call.kind = "search" /\ call.err = None
    /\ call.thr # NoThreshold
    /\ Len(call.results) = 2 /\ call.k > 2
    /\ call.results[1].score < call.results[2].score

\* C7: on a non-empty index the first result is a stored entry (its text,
\* its pmid) at minimal distance from the query, with that distance as
\* score; so when a stored embedding equals the query, the first result is
\* such an entry with score 0.  Without a threshold, on a well-formed store,
\* there is a first result.
C7_FirstResultIsNearest ==
    (call.kind = "search" /\ index # <<>>)
    => /\ (call.err = None /\ call.results # <<>>)
          => \E i \in 1..Min(Len(index), Min(Len(texts), Len(metadata))) :
                /\ \A j \in 1..Len(index) :
                     Distance(index[i], call.q) <= Distance(index[j], call.q)
                /\ call.results[1] =
                     [text |-> texts[i], pmid |-> metadata[i].pmid,
                      score |-> Distance(index[i], call.q)]
                /\ (\E j \in 1..Len(index) : index[j] = call.q)
                   => (index[i] = call.q /\ call.results[1].score = 0)
       /\ (call.thr = NoThreshold /\ Len(call.q) = Dim /\ StoreParallel)
          => (call.err = None /\ call.results # <<>>)

\* The query equals the second of two stored embeddings, which comes back
\* first with score 0.
C7_Witness ==
    /\ call.kind = "search" /\ call.err = None
    /\ Len(index) = 2 /\ StoreParallel
    /\ index[2] = call.q /\ index[1] # call.q
    /\ Len(call.results) >= 2
    /\ call.results[1] =
         [text |-> texts[2], pmid |-> metadata[2].pmid, score |-> 0]

(***************************************************************************)
(* Properties of generate_answer, checked under SpecGen.                   *)
(***************************************************************************)
\* C8: generate_answer with no retrieved chunk returns the fixed
\* insufficient-evidence answer, with no evidence and confidence 0.0, and
\* makes no call of llm.generate.
C8_EmptyChunksShortCircuit ==
    (ga.kind = "generate_answer" /\ ga.chunks = <<>>)
    => /\ ga.exc = None
       /\ ga.answer = [question |-> ga.question,
                       answer_summary |-> INSUFFICIENT,
                       evidence |-> <<>>, confidence |-> 0]
       /\ ~ga.llm_invoked

\* generate_answer returned on no chunks although the backend is down.
C8_Witness ==
    /\ ga.kind = "generate_answer" /\ ga.chunks = <<>>
    /\ ga.response.kind = "raise"
    /\ ga.exc = None /\ ga.answer.answer_summary = INSUFFICIENT

\* C9: when a strategy of the chain parsed an object that is not of the
\* MedicalAnswer shape, generate_answer raises the schema's validation
\* error, not the error of a failed parse, whichever strategy parsed it.
C9_ValidationErrorDistinct ==
    (ga.kind = "generate_answer" /\ ga.shape = "bad_shape")
    => ga.exc = "ValidationError"

\* C10: an answer generate_answer returns has its confidence in [0.0, 1.0]
\* (in tenths: 0..10).
C10_ConfidenceInUnitInterval ==
    (ga.kind = "generate_answer" /\ ga.exc = None)
    => (0 <= ga.answer.confidence /\ ga.answer.confidence <= 10)

(***************************************************************************)
(* Properties of the metrics, checked under SpecEval.                      *)
(***************************************************************************)
\* C11: check_faithfulness returns true only when the response contains
\* "NO" in any case, returns false whenever the response contains "YES",
\* and returns false when it contains neither.
C11_YesNeverFaithful ==
    (metric.kind = "check_faithfulness" /\ metric.response.kind = "text")
    => /\ metric.result => Contains(UpperText(metric.response.text), NO)
       /\ Contains(UpperText(metric.response.text), YES) => ~metric.result
       /\ (/\ ~Contains(UpperText(metric.response.text), NO)
           /\ ~Contains(UpperText(metric.response.text), YES))
          => ~metric.result

\* C12: for a non-empty ground truth, retrieval_recall is the number of
\* distinct ground-truth pmids retrieved over the number of distinct
\* ground-truth pmids: 1.0 exactly when all of them were retrieved, 0.0
\* exactly when none was.
C12_RecallOnSets ==
    (/\ metric.kind = "retrieval_recall"
     /\ metric.ground_truth.given /\ metric.ground_truth.pmids # <<>>)
    => LET G == ToSet(metric.ground_truth.pmids)
           R == ToSet(metric.retrieved)
       IN  /\ metric.result.num * Cardinality(G)
                = Cardinality(G \cap R) * metric.result.den
           /\ (metric.result.num = metric.result.den) <=> (G \subseteq R)
           /\ (metric.result.num = 0) <=> (G \cap R = {})

\* C13: retrieval_recall returns -1.0 exactly when the ground truth is
\* empty or None; for every other ground truth its value lies in [0, 1].
C13_SentinelOnlyWithoutGroundTruth ==
    metric.kind = "retrieval_recall"
    => /\ (metric.result = Sentinel)
            <=> (~metric.ground_truth.given \/ metric.ground_truth.pmids = <<>>)
       /\ (metric.ground_truth.given /\ metric.ground_truth.pmids # <<>>)
            => /\ metric.result.den > 0
               /\ 0 <= metric.result.num
               /\ metric.result.num <= metric.result.den

\* ask's default: no ground truth given, two pmids retrieved, the sentinel.
C13_Witness ==
    /\ metric.kind = "retrieval_recall"
    /\ ~metric.ground_truth.given
    /\ Len(metric.retrieved) = 2
    /\ metric.result = Sentinel

(***************************************************************************)
(* Properties of ask, the index build and /query, checked under SpecApp.   *)
(***************************************************************************)
Requested == req.kind \in {"query", "ask"}

\* C14: when the backend fails during check_faithfulness (generate raises,
\* or returns no text), check_faithfulness returns false and raises
\* nothing: once generate_answer has returned, ask returns a result whose
\* faithful is false, and the request is not aborted.
C14_FaithfulnessFailureDegrades ==
    (/\ Requested
     /\ req.ask.gen_exc = None
     /\ req.faith.kind \in {"raise", "none"})
    => /\ req.ask.exc = None
       /\ Len(req.ask.result) = 1
       /\ req.ask.result[1].metrics.faithful = FALSE
       /\ req.kind = "query" => req.status = 200

\* /query answered 200 with faithful = false although the backend raised
\* during the faithfulness check.
C14_Witness ==
    /\ req.kind = "query" /\ req.status = 200
    /\ req.gen.kind = "text" /\ req.faith.kind = "raise"
    /\ req.ask.calls = CallsOfAsk
    /\ req.ask.result[1].metrics.faithful = FALSE

\* C15: in ask a failure of embed, of search or of generate_answer leaves
\* ask as an exception: nothing is returned and check_faithfulness is not
\* called after it.  A call of ask that returns gives the answer with both
\* metrics.
C15_FatalStepsPropagate ==
    (Requested /\ req.ask.calls # <<>>)
    => /\ (\/ req.emb.err # None
           \/ req.ask.search_err \notin {None, NotCalled}
           \/ req.ask.gen_exc \notin {None, NotCalled})
          => /\ req.ask.exc # None
             /\ req.ask.result = <<>>
             /\ \A i \in 1..Len(req.ask.calls) :
                    req.ask.calls[i] # "check_faithfulness"
       /\ req.ask.exc # None => req.ask.result = <<>>
       /\ req.ask.exc = None
          => /\ Len(req.ask.result) = 1
             /\ req.ask.result[1].result # NoAnswer
             /\ req.ask.result[1].metrics.faithful \in BOOLEAN
             /\ req.ask.result[1].metrics.retrieval_recall.den > 0
             /\ req.ask.calls = CallsOfAsk

\* The backend's text parsed by no strategy: generate_answer's ValueError
\* left ask after three calls and /query answered 500.
C15_Witness ==
    /\ req.kind = "query" /\ req.status = 500
    /\ req.ask.gen_exc = "ValueError" /\ req.ask.exc = "ValueError"
    /\ req.ask.calls = <<"embed", "search", "generate_answer">>
    /\ req.ask.result = <<>>

\* C18: AppState.store is None, or the VectorStore that holds every chunk
\* of the corpus with its embedding and its metadata; a build that failed
\* leaves it None; a request that found a store found it complete.
C18_StoreVisibleOnlyWhenBuilt ==
    /\ store # None
       => /\ build.all_chunks # <<>>
          /\ index = Embed(build.all_chunks)
          /\ texts = build.all_chunks
          /\ metadata = build.metadata
    /\ build.err # None => store = None
    /\ (Requested /\ req.store_seen # None)
       => req.seen = <<Len(build.all_chunks), Len(build.all_chunks),
                       Len(build.all_chunks)>>

\* A request answered from the store of a corpus of two chunks.
C18_Witness ==
    /\ store # None /\ Len(index) = 2
    /\ req.kind = "query" /\ req.status = 200
    /\ req.store_seen # None /\ req.seen = <<2, 2, 2>>

\* C20: /query, when AppState.store is None, answers with status 503 and
\* the "Index not ready" detail, and does not call ask.
C20_NotReadyIs503 ==
    (req.kind = "query" /\ req.store_seen = None)
    => /\ req.status = 503
       /\ req.detail = NotReady
       /\ req.ask.calls = <<>>

(***************************************************************************)
(* Properties of the parse chain, checked under SpecGen.                   *)
(***************************************************************************)
AnsweredText == ga.kind = "generate_answer" /\ ga.tried # <<>>
                /\ ga.response.kind = "text"

\* The answer an answer object carries, when it is valid on its own.
Carries(t) == MedicalAnswer(JsonLoads(t).v)
ValidObject(t) == JsonLoads(t).ok /\ Carries(t).exc = None

\* C16: a response that is a valid answer object inside a fenced block,
\* with or without the json tag, with or without text around the block, is
\* parsed by the chain (its fenced-block step) into the answer the object
\* carries.
C16_FencedContentParses ==
    AnsweredText
    => \A t \in AnswerObjects :
        (ga.response.text \in {Fenced(t), FencedInProse(t)} /\ ValidObject(t))
        => /\ ga.exc = None
           /\ ga.answer = Carries(t).answer
           /\ ga.strategy = "fence"
           /\ ga.tried = <<"direct", "fence">>

\* An untagged block between two lines of prose, holding an answer with
\* one piece of evidence, was parsed.
C16_Witness ==
    /\ AnsweredText
    /\ \E t \in AnswerObjects :
        /\ ga.response.text = FencedInProse(t)
        /\ ValidObject(t)
    /\ ga.exc = None /\ ga.strategy = "fence"
    /\ Len(ga.answer.evidence) = 1

\* A text with each of its newlines replaced by a space.
Unbroken(t) == [i \in 1..Len(t) |-> IF t[i] = NL THEN SP ELSE t[i]]

\* An answer object that is valid but for raw newlines inside a string.
BrokenByNewline(t) ==
    /\ ~JsonLoads(t).ok
    /\ JsonLoads(t).msg = "Invalid control character at"
    /\ ValidObject(Unbroken(t))

ChainOrder == <<"direct", "fence", "brace", "repair">>

\* C19: the chain tries direct parse, fenced block, outermost braces and
\* newline repair in this order, stops at the first strategy that parses,
\* and every strategy, like the diagnostics of the final error, reads the
\* text the backend returned.
C19_ChainOnRawText ==
    AnsweredText
    => /\ ga.tried[1] = "direct"
       /\ \A i, j \in 1..Len(ga.tried) :
            i < j => \E a, b \in 1..Len(ChainOrder) :
                        /\ a < b
                        /\ ChainOrder[a] = ga.tried[i]
                        /\ ChainOrder[b] = ga.tried[j]
       /\ ga.strategy # "none" => ga.strategy = ga.tried[Len(ga.tried)]
       /\ ga.raw_output = ga.response.text

=============================================================================
